---- MODULE Spec2Model ----
(***************************************************************************)
(* Kalpana Core Authority (src/kalpana-core/src/main.py): the policy       *)
(* engine, the audit logger, the request-id generator, the IPC dispatcher, *)
(* the framing of its byte streams and the daemon's start and shutdown,    *)
(* and the shell that asks it (src/kalpana-shell/src/shell.py), as state   *)
(* machines.                                                               *)
(*                                                                         *)
(* Python values are modelled as follows.                                  *)
(*   - A JSON / Python scalar is a tagged record: PyStr("x"), PyInt(0),    *)
(*     PyList, PyDict, None (lists and dicts are unhashable).              *)
(*   - A target string is a sequence of chunks of characters, each chunk   *)
(*     one of PathTokens; the string is the concatenation of its chunks.   *)
(*     Every chunk but "x" starts with "/" and "/" occurs nowhere else,    *)
(*     so a blocked path is a substring of the string exactly when its     *)
(*     chunks occur contiguously in the sequence.                          *)
(*   - An identifier string is a sequence of character codes.              *)
(***************************************************************************)
EXTENDS Integers, Sequences, FiniteSets, TLC

VARIABLES
    \* PolicyEngine
    pe_policies,      \* PolicyEngine.policies, the documents loaded from disk
    pe_request,       \* the ActionRequest handed to evaluate by a direct caller
    pe_response,      \* what evaluate returned for pe_request, or None
    pe_prev,          \* decision and reason of the previous evaluation, or None
    pe_calls,         \* number of direct evaluate calls made so far
    \* KalpanaCore and its clock
    request_counter,  \* KalpanaCore.request_counter
    last_decision,    \* KalpanaCore.last_decision
    now,              \* the reading datetime.now() returns
    issued,           \* the identifiers _generate_request_id returned to a direct caller
    \* AuditLogger
    entries,          \* AuditLogger.entries
    log_file,         \* the lines of the file at AuditLogger.log_path
    au_call,          \* the arguments a direct caller gives AuditLogger.query
    au_return,        \* what the most recent direct call of AuditLogger returned or raised
    \* IPCServer
    conn,             \* per connection: state, frames not yet read, frames written
    frames_sent,      \* number of frames clients have sent
    server,           \* the listening socket of IPCServer: "stopped" or "listening"
    stream,           \* one byte stream: sender's frames, bytes in flight, reader state
    shell,            \* KalpanaShell: its fields, its connection, the commands it ran
    daemon            \* the daemon process: its phase, the socket path, the policy disk

pe_vars == <<pe_policies, pe_request, pe_response, pe_prev, pe_calls>>
core_vars == <<request_counter, last_decision, now, issued>>
audit_vars == <<entries, log_file, au_call, au_return>>
ipc_vars == <<conn, frames_sent, server, stream, shell, daemon>>

vars == <<pe_vars, core_vars, audit_vars, ipc_vars>>

None == [py |-> "None"]

----------------------------------------------------------------------------
(* Bounds of the model *)

MaxTargetLen == 3
MaxCalls == 2
MaxClock == 1
MaxIds == 4
MaxEntries == 2
MaxLimit == 2
MaxFrames == 2
MaxStreamFrames == 2
MaxBodyLen == 3
MaxShellCommands == 2

\* Program constants
CounterWidth == 6
QueryDefaultLimit == 100
AuditCommandLimit == 50
HeaderLen == 4

----------------------------------------------------------------------------
(* Python values *)

PyStr(s) == [py |-> "str", s |-> s]
PyInt(n) == [py |-> "int", n |-> n]
PyList == [py |-> "list"]
PyDict == [py |-> "dict"]
PyDictOf(items) == [py |-> "dict", items |-> items]

\* hash(v) raises TypeError for a list or a dict
Hashable(v) == v.py \notin {"list", "dict"}

\* All sequences over S of length at most n
BoundedSeq(S, n) == UNION {[1..k -> S] : k \in 0..n}

\* Python's `sub in s` on strings: sub occurs contiguously in s
Contains(sub, s) ==
    \E i \in 0..(Len(s) - Len(sub)) : SubSeq(s, i + 1, i + Len(sub)) = sub

----------------------------------------------------------------------------
(* Enums and data classes *)

ActionType == {"process_start", "process_kill", "file_read", "file_write",
               "file_delete", "network_connect", "network_listen",
               "system_command", "privilege_escalate", "package_install",
               "service_control"}

Decision == {"allow", "deny", "audit", "sandbox"}

ActionRequest(id, action_type, pid, uid, name, target, parameters, timestamp) ==
    [id |-> id, action_type |-> action_type, requestor_pid |-> pid,
     requestor_uid |-> uid, requestor_name |-> name, target |-> target,
     parameters |-> parameters, timestamp |-> timestamp]

ActionResponse(request_id, decision, reason) ==
    [request_id |-> request_id, decision |-> decision, reason |-> reason,
     constraints |-> PyDict, expires_at |-> None]

TypeError == [exception |-> "TypeError"]

----------------------------------------------------------------------------
(* Request identifiers: f"REQ-{now:%Y%m%d%H%M%S}-{counter:06d}" *)

\* The wall clock counts seconds from this local time
ClockBase == [year |-> 2026, month |-> 11, day |-> 5, second_of_day |-> 35999]

ClockReadings == 0..MaxClock

\* datetime.now() at clock reading t
datetime(t) ==
    LET sod == ClockBase.second_of_day + t
    IN  [year |-> ClockBase.year, month |-> ClockBase.month, day |-> ClockBase.day,
         hour |-> sod \div 3600, minute |-> (sod % 3600) \div 60, second |-> sod % 60]

RECURSIVE DecDigits(_)
DecDigits(n) == IF n < 10 THEN <<n>> ELSE DecDigits(n \div 10) \o <<n % 10>>

\* The characters of format(n, "0<w>d"): at least w digits, zero-padded
ZeroPad(n, w) ==
    LET d == DecDigits(n)
        pad == IF Len(d) >= w THEN <<>> ELSE [i \in 1..(w - Len(d)) |-> 0]
    IN  [i \in 1..(Len(pad) + Len(d)) |-> 48 + (pad \o d)[i]]

strftime(dt) ==
    ZeroPad(dt.year, 4) \o ZeroPad(dt.month, 2) \o ZeroPad(dt.day, 2)
        \o ZeroPad(dt.hour, 2) \o ZeroPad(dt.minute, 2) \o ZeroPad(dt.second, 2)

\* "REQ-" and "-" as character codes
ReqPrefix == <<82, 69, 81, 45>>
Dash == <<45>>

\* A defect: the counter is not part of the identifier
RequestId_NoCounter(t, counter) == ReqPrefix \o strftime(datetime(t)) \o Dash

\* The string _generate_request_id returns for clock reading t and the
\* already incremented counter
RequestId(t, counter) ==
    ReqPrefix \o strftime(datetime(t)) \o Dash \o ZeroPad(counter, CounterWidth)

\* Python's a < b on strings
LexLess(a, b) ==
    \/ /\ Len(a) < Len(b)
       /\ \A i \in 1..Len(a) : a[i] = b[i]
    \/ \E i \in 1..(IF Len(a) < Len(b) THEN Len(a) ELSE Len(b)) :
          /\ a[i] < b[i]
          /\ \A j \in 1..(i - 1) : a[j] = b[j]

----------------------------------------------------------------------------
(* Policy engine *)

trusted_processes == {PyStr("kalpana-shell"), PyStr("kalpana-ui"), PyStr("systemd")}

blocked_paths == {<<"/boot">>, <<"/kalpana", "/core">>}

default_policy ==
    [name |-> "default", version |-> "1.0",
     rules |-> <<[action |-> "process_start", allow_trusted |-> TRUE],
                 [action |-> "file_read", allow |-> TRUE],
                 [action |-> "file_write", allow |-> FALSE],
                 [action |-> "network_connect", allow |-> TRUE, audit |-> TRUE],
                 [action |-> "privilege_escalate", allow |-> FALSE]>>]

\* A document an administrator dropped into the policy directory
custom_policy ==
    [name |-> "custom", version |-> "2.0",
     rules |-> <<[action |-> "file_write", allow |-> TRUE],
                 [action |-> "privilege_escalate", allow |-> TRUE]>>]

\* The policy directory as load_policies finds it: whether it exists, and its
\* *.json files, each a parseable document or not.
PolicyDisks ==
    {[exists |-> FALSE, creatable |-> TRUE, files |-> <<>>],
     [exists |-> TRUE, creatable |-> TRUE, files |-> <<>>],
     [exists |-> TRUE, creatable |-> TRUE,
      files |-> <<[ok |-> TRUE, doc |-> default_policy]>>],
     [exists |-> TRUE, creatable |-> TRUE,
      files |-> <<[ok |-> TRUE, doc |-> custom_policy],
                  [ok |-> FALSE, doc |-> None]>>]}

\* A policy directory that does not exist and cannot be created
UncreatableDisk == [exists |-> FALSE, creatable |-> FALSE, files |-> <<>>]

\* policy_dir.mkdir(parents=True, exist_ok=True) raises OSError
mkdir_raises(disk) == ~disk.exists /\ ~disk.creatable

\* The loop of load_policies: a file that fails to parse is skipped
RECURSIVE LoadFiles(_)
LoadFiles(files) ==
    IF files = <<>> THEN <<>>
    ELSE (IF Head(files).ok THEN <<Head(files).doc>> ELSE <<>>) \o LoadFiles(Tail(files))

\* PolicyEngine.load_policies when mkdir does not raise: a missing directory
\* is created and given default.json; then every *.json is loaded
load_policies(disk) ==
    IF ~disk.exists
    THEN LoadFiles(<<[ok |-> TRUE, doc |-> default_policy]>>)
    ELSE LoadFiles(disk.files)

ProtectedReason == <<"Protected system path - modification forbidden">>
TrustedReason(name) == <<"Trusted process: ", name.s>>
NetworkReason == <<"Network action logged for review">>
EscalateReason == <<"Privilege escalation requires Kalpana approval">>
SandboxReason == <<"Unknown action sandboxed by default">>

\* A defect: the trusted-process rule is tried before the protected-path rule
evaluate_TrustFirst(policies, request) ==
    IF ~Hashable(request.requestor_name) THEN TypeError
    ELSE IF request.requestor_name \in trusted_processes
    THEN ActionResponse(request.id, "allow", TrustedReason(request.requestor_name))
    ELSE IF /\ request.action_type \in {"file_write", "file_delete"}
            /\ \E blocked \in blocked_paths : Contains(blocked, request.target)
    THEN ActionResponse(request.id, "deny", ProtectedReason)
    ELSE IF request.action_type \in {"network_connect", "network_listen"}
    THEN ActionResponse(request.id, "audit", NetworkReason)
    ELSE IF request.action_type = "privilege_escalate"
    THEN ActionResponse(request.id, "deny", EscalateReason)
    ELSE ActionResponse(request.id, "sandbox", SandboxReason)

\* A defect: only file_write is checked against the protected paths
evaluate_WriteOnly(policies, request) ==
    IF /\ request.action_type = "file_write"
       /\ \E blocked \in blocked_paths : Contains(blocked, request.target)
    THEN ActionResponse(request.id, "deny", ProtectedReason)
    ELSE IF ~Hashable(request.requestor_name) THEN TypeError
    ELSE IF request.requestor_name \in trusted_processes
    THEN ActionResponse(request.id, "allow", TrustedReason(request.requestor_name))
    ELSE IF request.action_type \in {"network_connect", "network_listen"}
    THEN ActionResponse(request.id, "audit", NetworkReason)
    ELSE IF request.action_type = "privilege_escalate"
    THEN ActionResponse(request.id, "deny", EscalateReason)
    ELSE ActionResponse(request.id, "sandbox", SandboxReason)

\* A defect: what no rule recognises is allowed
evaluate_DefaultAllow(policies, request) ==
    IF /\ request.action_type \in {"file_write", "file_delete"}
       /\ \E blocked \in blocked_paths : Contains(blocked, request.target)
    THEN ActionResponse(request.id, "deny", ProtectedReason)
    ELSE IF ~Hashable(request.requestor_name) THEN TypeError
    ELSE IF request.requestor_name \in trusted_processes
    THEN ActionResponse(request.id, "allow", TrustedReason(request.requestor_name))
    ELSE IF request.action_type \in {"network_connect", "network_listen"}
    THEN ActionResponse(request.id, "audit", NetworkReason)
    ELSE IF request.action_type = "privilege_escalate"
    THEN ActionResponse(request.id, "deny", EscalateReason)
    ELSE ActionResponse(request.id, "allow", SandboxReason)

\* A defect: a loaded document's rule for the action kind is consulted
evaluate_UsesPolicies(policies, request) ==
    IF /\ request.action_type \in {"file_write", "file_delete"}
       /\ \E blocked \in blocked_paths : Contains(blocked, request.target)
    THEN ActionResponse(request.id, "deny", ProtectedReason)
    ELSE IF ~Hashable(request.requestor_name) THEN TypeError
    ELSE IF request.requestor_name \in trusted_processes
    THEN ActionResponse(request.id, "allow", TrustedReason(request.requestor_name))
    ELSE IF \E i \in DOMAIN policies : \E j \in DOMAIN policies[i].rules :
              /\ policies[i].rules[j].action = request.action_type
              /\ "allow" \in DOMAIN policies[i].rules[j]
              /\ policies[i].rules[j].allow
    THEN ActionResponse(request.id, "allow", <<"Allowed by policy">>)
    ELSE IF request.action_type \in {"network_connect", "network_listen"}
    THEN ActionResponse(request.id, "audit", NetworkReason)
    ELSE IF request.action_type = "privilege_escalate"
    THEN ActionResponse(request.id, "deny", EscalateReason)
    ELSE ActionResponse(request.id, "sandbox", SandboxReason)

\* PolicyEngine.evaluate: the response, or TypeError when the set-membership
\* test of the requester name hashes a list or a dict.
evaluate(policies, request) ==
    IF /\ request.action_type \in {"file_write", "file_delete"}
       /\ \E blocked \in blocked_paths : Contains(blocked, request.target)
    THEN ActionResponse(request.id, "deny", ProtectedReason)
    ELSE IF ~Hashable(request.requestor_name) THEN TypeError
    ELSE IF request.requestor_name \in trusted_processes
    THEN ActionResponse(request.id, "allow", TrustedReason(request.requestor_name))
    ELSE IF request.action_type \in {"network_connect", "network_listen"}
    THEN ActionResponse(request.id, "audit", NetworkReason)
    ELSE IF request.action_type = "privilege_escalate"
    THEN ActionResponse(request.id, "deny", EscalateReason)
    ELSE ActionResponse(request.id, "sandbox", SandboxReason)

----------------------------------------------------------------------------
(* The policy engine as a unit: a request is built, evaluate is applied *)

PathTokens == {"/boot", "/kalpana", "/core", "/tmp", "x"}

Targets == BoundedSeq(PathTokens, MaxTargetLen)

PeNames == trusted_processes \cup {PyStr("unknown"), PyStr("unknown-script")}

\* The parts of the state a unit specification does not use
PolicyIdle ==
    /\ pe_policies = load_policies([exists |-> FALSE, creatable |-> TRUE, files |-> <<>>])
    /\ pe_request = None
    /\ pe_response = None
    /\ pe_prev = None
    /\ pe_calls = 0

CoreIdle ==
    /\ request_counter = 0
    /\ last_decision = None
    /\ now = 0
    /\ issued = <<>>

AuditIdle ==
    /\ entries = <<>>
    /\ log_file = <<>>
    /\ au_call = None
    /\ au_return = [op |-> "none"]

StreamIdle ==
    [sent |-> <<>>, wire |-> <<>>, buffer |-> <<>>, eof |-> FALSE,
     pc |-> "idle", msg_length |-> 0, messages |-> <<>>]

ShellIdle == [phase |-> "idle"]

DaemonIdle == [phase |-> "idle"]

IpcIdle ==
    /\ conn = <<>>
    /\ frames_sent = 0
    /\ server = "stopped"
    /\ stream = StreamIdle
    /\ shell = ShellIdle
    /\ daemon = DaemonIdle

PolicyInit ==
    /\ CoreIdle /\ AuditIdle /\ IpcIdle
    /\ pe_policies \in {load_policies(d) : d \in PolicyDisks}
    /\ pe_request \in {ActionRequest(RequestId(0, c), a, PyInt(0), PyInt(0), n, t, PyDict, 0) :
                          c \in {1}, a \in ActionType, n \in PeNames, t \in Targets}
    /\ pe_response = None
    /\ pe_prev = None
    /\ pe_calls = 0

Evaluate ==
    /\ pe_response = None
    /\ pe_calls < MaxCalls
    /\ pe_response' = evaluate(pe_policies, pe_request)
    /\ pe_calls' = pe_calls + 1
    /\ UNCHANGED <<pe_policies, pe_request, pe_prev>>
    /\ UNCHANGED <<core_vars, audit_vars, ipc_vars>>

PolicyNext == Evaluate

SpecPolicy == PolicyInit /\ [][PolicyNext]_vars

\* The protected directories the specification names, and the targets that
\* are one of them or lie beneath one (the next chunk starts a path segment)
ProtectedDirs == {<<"/boot">>, <<"/kalpana", "/core">>}

UnderProtected(target) ==
    \E p \in ProtectedDirs :
        /\ Len(target) >= Len(p)
        /\ SubSeq(target, 1, Len(p)) = p
        /\ Len(target) > Len(p) => target[Len(p) + 1] # "x"

Evaluated == pe_response # None /\ "decision" \in DOMAIN pe_response

\* C1 as stated: a request whose target is a protected path or beneath one is
\* never answered ALLOW, whatever its action kind and requester.
C1_ProtectedNeverAllowed ==
    (Evaluated /\ UnderProtected(pe_request.target))
        => pe_response.decision # "allow"

\* C1 amended: a FILE_WRITE or FILE_DELETE request whose target is a protected
\* path or beneath one is never answered ALLOW, whoever the requester is.
C1_ProtectedWriteNeverAllowed ==
    (/\ Evaluated
     /\ UnderProtected(pe_request.target)
     /\ pe_request.action_type \in {"file_write", "file_delete"})
        => pe_response.decision # "allow"

C1_Witness ==
    /\ Evaluated
    /\ pe_request.action_type = "file_delete"
    /\ pe_request.requestor_name = PyStr("systemd")
    /\ pe_request.target = <<"/kalpana", "/core", "/tmp">>

\* C2: a trusted requester writing to or deleting a protected path is answered
\* DENY with the protected-path reason (the protected-path rule comes first).
C2_ProtectedOutranksTrusted ==
    (/\ Evaluated
     /\ pe_request.requestor_name \in
            {PyStr("kalpana-shell"), PyStr("kalpana-ui"), PyStr("systemd")}
     /\ pe_request.action_type \in {"file_write", "file_delete"}
     /\ UnderProtected(pe_request.target))
        => /\ pe_response.decision = "deny"
           /\ pe_response.reason = <<"Protected system path - modification forbidden">>

C2_Witness ==
    /\ Evaluated
    /\ pe_request.requestor_name = PyStr("kalpana-shell")
    /\ pe_request.action_type = "file_write"
    /\ pe_request.target = <<"/boot">>
    /\ pe_response.decision = "deny"

----------------------------------------------------------------------------
(* Two evaluations of the same (requester name, action kind, target) *)

DetTargets == {<<>>, <<"/boot">>, <<"/tmp">>}
DetNames == {PyStr("kalpana-shell"), PyStr("unknown")}
DetPids == {PyInt(0), PyInt(4242)}
DetUids == {PyInt(0), PyInt(1000)}
DetParameters == {PyDict, PyDictOf({"-la"})}

DeterminismInit ==
    /\ CoreIdle /\ AuditIdle /\ IpcIdle
    /\ pe_policies \in {load_policies(d) : d \in PolicyDisks}
    /\ pe_request \in {ActionRequest(RequestId(0, 1), a, PyInt(0), PyInt(0), n, t, PyDict, 0) :
                          a \in ActionType, n \in DetNames, t \in DetTargets}
    /\ pe_response = None
    /\ pe_prev = None
    /\ pe_calls = 0

\* The same name, kind and target are submitted again as another request (other
\* id, pid, uid, parameters, timestamp), to an engine constructed over a policy
\* directory that may hold other documents.
Resubmit ==
    /\ pe_response # None
    /\ pe_calls < MaxCalls
    /\ \E t \in ClockReadings, pid \in DetPids, uid \in DetUids, par \in DetParameters :
          pe_request' = [pe_request EXCEPT !.id = RequestId(t, pe_calls + 1),
                                           !.requestor_pid = pid,
                                           !.requestor_uid = uid,
                                           !.parameters = par,
                                           !.timestamp = t]
    /\ pe_policies' \in {load_policies(d) : d \in PolicyDisks}
    /\ pe_prev' = [decision |-> pe_response.decision, reason |-> pe_response.reason]
    /\ pe_response' = None
    /\ UNCHANGED pe_calls
    /\ UNCHANGED <<core_vars, audit_vars, ipc_vars>>

DeterminismNext == Evaluate \/ Resubmit

SpecDeterminism == DeterminismInit /\ [][DeterminismNext]_vars

\* C4: two evaluations that agree on requester name, action kind and target
\* return the same decision and reason, whatever the id, pid, uid, parameters,
\* the number of earlier evaluations and the documents loaded.
C4_DecisionDependsOnKeyOnly ==
    (pe_prev # None /\ pe_response # None)
        => /\ pe_response.decision = pe_prev.decision
           /\ pe_response.reason = pe_prev.reason

C4_Witness ==
    /\ pe_prev # None
    /\ pe_response # None
    /\ pe_calls = MaxCalls
    /\ pe_request.requestor_uid = PyInt(1000)
    /\ pe_request.parameters # PyDict
    /\ pe_policies = <<custom_policy>>
    /\ pe_request.action_type = "privilege_escalate"
    /\ pe_response.decision = "deny"

----------------------------------------------------------------------------
(* The identifier generator as a unit: the clock moves, identifiers are drawn *)

\* The run is observed from its start, or from the point where the next
\* counter values are the last two that fit the zero-padded width.
CounterStarts == {0, 10^CounterWidth - 3}

IdInit ==
    /\ PolicyIdle /\ AuditIdle /\ IpcIdle
    /\ request_counter \in CounterStarts
    /\ last_decision = None
    /\ now \in ClockReadings
    /\ issued = <<>>

\* The wall clock (datetime.now() is naive local time) is read at another
\* value: later, or earlier after a DST change or a clock adjustment.
Tick ==
    /\ \E t \in ClockReadings \ {now} : now' = t
    /\ UNCHANGED <<request_counter, last_decision, issued>>
    /\ UNCHANGED <<pe_vars, audit_vars, ipc_vars>>

\* A direct call of KalpanaCore._generate_request_id
GenerateRequestId ==
    /\ Len(issued) < MaxIds
    /\ request_counter' = request_counter + 1
    /\ issued' = Append(issued, [id |-> RequestId(now, request_counter + 1),
                                 t |-> now,
                                 counter |-> request_counter + 1])
    /\ UNCHANGED <<last_decision, now>>
    /\ UNCHANGED <<pe_vars, audit_vars, ipc_vars>>

IdNext == Tick \/ GenerateRequestId

SpecId == IdInit /\ [][IdNext]_vars

\* C7 as stated: the identifiers generated in one run are pairwise distinct and
\* each is lexicographically greater than every identifier generated before it,
\* for every counter value and every sequence of clock readings.
C7_IdsDistinctAndIncreasing ==
    \A i, j \in DOMAIN issued :
        i < j => /\ issued[i].id # issued[j].id
                 /\ LexLess(issued[i].id, issued[j].id)

\* C7 amended: the identifiers are pairwise distinct for every counter value and
\* every sequence of clock readings; an identifier is lexicographically greater
\* than an earlier one whenever the clock did not read earlier at its
\* generation than at the earlier one's and its counter has at most six digits.
C7_IdsDistinctIncreasingWithClock ==
    \A i, j \in DOMAIN issued :
        i < j => /\ issued[i].id # issued[j].id
                 /\ (issued[i].t <= issued[j].t /\ issued[j].counter < 10^6)
                        => LexLess(issued[i].id, issued[j].id)

C7_Witness ==
    /\ Len(issued) = 3
    /\ issued[1].t = issued[2].t
    /\ issued[2].counter = 999999
    /\ LexLess(issued[1].id, issued[2].id)
    /\ issued[3].t < issued[2].t
    /\ issued[3].id # issued[2].id

----------------------------------------------------------------------------
(* Audit logger *)

AuditEntry(timestamp, request, response) ==
    [timestamp |-> timestamp, request |-> request, response |-> response,
     execution_result |-> None]

OSError == [exception |-> "OSError"]

\* The JSON record log writes for an entry
log_line(entry) ==
    [timestamp |-> datetime(entry.timestamp),
     request_id |-> entry.request.id,
     action |-> entry.request.action_type,
     requestor |-> entry.request.requestor_name,
     target |-> entry.request.target,
     decision |-> entry.response.decision,
     reason |-> entry.response.reason]

\* A defect: the new entry is put in front of the earlier ones
log_Prepend(es, file, entry, writable) ==
    [entries |-> <<entry>> \o es,
     log_file |-> IF writable THEN Append(file, log_line(entry)) ELSE file,
     raised |-> IF writable THEN None ELSE OSError]

\* A defect: a failed write is retried and the entry appended again
log_Retry(es, file, entry, writable) ==
    [entries |-> IF writable THEN Append(es, entry) ELSE Append(Append(es, entry), entry),
     log_file |-> Append(file, log_line(entry)),
     raised |-> None]

\* A defect: the file is opened for writing, not for appending
log_Truncate(es, file, entry, writable) ==
    [entries |-> Append(es, entry),
     log_file |-> IF writable THEN <<log_line(entry)>> ELSE file,
     raised |-> IF writable THEN None ELSE OSError]

\* AuditLogger.log: the entry is appended in memory first; then the file is
\* opened for append and one line written, which raises OSError when the file
\* cannot be opened or written.
log(es, file, entry, writable) ==
    [entries |-> Append(es, entry),
     log_file |-> IF writable THEN Append(file, log_line(entry)) ELSE file,
     raised |-> IF writable THEN None ELSE OSError]

\* An optional argument is <<>> (None) or <<v>>; an Enum member is truthy
Truthy(opt) == opt # <<>>

\* Python's s[start:]
PySliceFrom(s, start) ==
    LET n == Len(s)
        from == IF start < 0
                THEN (IF n + start < 0 THEN 0 ELSE n + start)
                ELSE (IF start > n THEN n ELSE start)
    IN  SubSeq(s, from + 1, n)

\* A defect: with both filters given, an entry matching either one is kept
query_EitherFilter(es, action_type, decision, limit) ==
    LET keep(e) ==
            IF Truthy(action_type) /\ Truthy(decision)
            THEN \/ e.request.action_type = action_type[1]
                 \/ e.response.decision = decision[1]
            ELSE /\ Truthy(action_type) => e.request.action_type = action_type[1]
                 /\ Truthy(decision) => e.response.decision = decision[1]
    IN  PySliceFrom(SelectSeq(es, keep), -limit)

\* AuditLogger.query
query(es, action_type, decision, limit) ==
    LET byType(e) == e.request.action_type = action_type[1]
        byDecision(e) == e.response.decision = decision[1]
        results1 == IF Truthy(action_type) THEN SelectSeq(es, byType) ELSE es
        results2 == IF Truthy(decision) THEN SelectSeq(results1, byDecision)
                    ELSE results1
    IN  PySliceFrom(results2, -limit)

----------------------------------------------------------------------------
(* The audit logger as a unit: entries are logged, the log is queried *)

LogTypes == {"file_write", "system_command"}
LogDecisions == {"allow", "deny"}

Optional(S) == {<<>>} \cup {<<v>> : v \in S}

\* The caller's query arguments are fixed when the run starts; limit <<>> is
\* the default.
AuditInit ==
    /\ PolicyIdle /\ CoreIdle /\ IpcIdle
    /\ entries = <<>>
    /\ log_file = <<>>
    /\ au_call \in [action_type : Optional(ActionType),
                    decision : Optional(Decision),
                    limit : Optional(0..MaxLimit)]
    /\ au_return = [op |-> "none"]

\* A direct call of AuditLogger.log with the entry of the next request
Log ==
    /\ Len(entries) < MaxEntries
    /\ \E a \in LogTypes, d \in LogDecisions, writable \in BOOLEAN :
          LET id == RequestId(now, Len(entries) + 1)
              request == ActionRequest(id, a, PyInt(0), PyInt(0), PyStr("unknown"),
                                       <<"/tmp">>, PyDict, now)
              response == ActionResponse(id, d, <<"reason">>)
              done == log(entries, log_file, AuditEntry(now, request, response),
                          writable)
          IN  /\ entries' = done.entries
              /\ log_file' = done.log_file
              /\ au_return' = [op |-> "log", raised |-> done.raised]
    /\ UNCHANGED au_call
    /\ UNCHANGED <<pe_vars, core_vars, ipc_vars>>

\* A direct call of AuditLogger.query with the caller's arguments
Query ==
    /\ au_return' =
          [op |-> "query",
           result |-> query(entries, au_call.action_type, au_call.decision,
                            IF au_call.limit = <<>> THEN QueryDefaultLimit
                            ELSE au_call.limit[1])]
    /\ UNCHANGED <<entries, log_file, au_call>>
    /\ UNCHANGED <<pe_vars, core_vars, ipc_vars>>

\* The "audit" branch of process_request on the JSON object `request`: the
\* __dict__ of each entry of query(limit=50); the payload is not consulted
audit_command(request) == [entries |-> query(entries, <<>>, <<>>, AuditCommandLimit)]

\* The payload IPCClient.get_audit_log sends for a limit, or one without it
AuditPayload(limit) ==
    IF limit = <<>> THEN [command |-> PyStr("audit")]
    ELSE [command |-> PyStr("audit"), limit |-> PyInt(limit[1])]

\* process_request builds the response of an audit command carrying the
\* caller's limit
AuditCommand ==
    /\ au_return' = [op |-> "audit",
                     result |-> audit_command(AuditPayload(au_call.limit)).entries]
    /\ UNCHANGED <<entries, log_file, au_call>>
    /\ UNCHANGED <<pe_vars, core_vars, ipc_vars>>

AuditNext == Log \/ Query \/ AuditCommand

SpecAudit == AuditInit /\ [][AuditNext]_vars

\* Whether entry e passes the filters of the query call c
Matches(e, c) ==
    /\ c.action_type # <<>> => e.request.action_type = c.action_type[1]
    /\ c.decision # <<>> => e.response.decision = c.decision[1]

MatchingPositions(c) == {i \in DOMAIN entries : Matches(entries[i], c)}

Position(e) == CHOOSE i \in DOMAIN entries : entries[i] = e

Queried == au_return.op = "query"

\* C8: query(limit=k) returns at most k entries, for every k including 0, and
\* they are the most recently logged of the entries that match the filters.
C8_AtMostLimitMostRecent ==
    (Queried /\ au_call.limit # <<>>) =>
        LET k == au_call.limit[1]
            P == MatchingPositions(au_call)
            result == au_return.result
        IN  /\ Len(result) <= k
            /\ \A i \in DOMAIN result :
                   /\ \E p \in P : entries[p] = result[i]
                   /\ \A p \in P : p > Position(result[i])
                          => \E j \in DOMAIN result : result[j] = entries[p]

\* C9: query returns, newest last, exactly the entries that match every filter
\* supplied (both filters: AND; one filter: that one; none: every entry), for
\* every ActionType and Decision: what it returns matches, is in logging order
\* and skips no matching entry logged after one it returns, and with a limit no
\* smaller than the number of matching entries it returns all of them.
C9_FiltersConjunctive ==
    Queried =>
        LET k == IF au_call.limit = <<>> THEN 100 ELSE au_call.limit[1]
            P == MatchingPositions(au_call)
            result == au_return.result
            returned == {result[i] : i \in DOMAIN result}
        IN  /\ \A e \in returned : \E p \in P : entries[p] = e
            /\ \A i, j \in DOMAIN result :
                   i < j => Position(result[i]) < Position(result[j])
            /\ \A e \in returned : \A p \in P :
                   p > Position(e) => entries[p] \in returned
            /\ k >= Cardinality(P) => \A p \in P : entries[p] \in returned

C9_Witness ==
    /\ Queried
    /\ au_call.action_type = <<"file_write">>
    /\ au_call.decision = <<"deny">>
    /\ Len(entries) = 2
    /\ entries[1].request.action_type = "file_write"
    /\ entries[1].response.decision = "deny"
    /\ entries[2].request.action_type = "file_write"
    /\ entries[2].response.decision = "allow"
    /\ au_return.result = <<entries[1]>>

----------------------------------------------------------------------------
(* Kalpana Core Authority: the operations behind the IPC commands *)

\* dict.get(key, default) on a JSON object
Get(d, key, default) == IF key \in DOMAIN d THEN d[key] ELSE default

\* A JSON value as the target of a request: a string is one chunk
AsTarget(v) == IF v.py = "str" THEN <<v.s>> ELSE v

\* A defect: a sandboxed action is reported as allowed
ExecuteResult_SandboxAllowed(response) ==
    [request_id |-> response.request_id,
     decision |-> response.decision,
     reason |-> response.reason,
     allowed |-> response.decision \in {"allow", "audit", "sandbox"}]

\* The dict handle_execute returns for the engine's response
ExecuteResult(response) ==
    [request_id |-> response.request_id,
     decision |-> response.decision,
     reason |-> response.reason,
     allowed |-> response.decision \in {"allow", "audit"}]

\* A defect: the counter is read but not advanced once it is positive
handle_execute_SharedCounter(request, t, writable) ==
    LET counter == IF request_counter = 0 THEN 1 ELSE request_counter
        action_request ==
            ActionRequest(RequestId(t, counter), "system_command",
                          Get(request, "pid", PyInt(0)),
                          Get(request, "uid", PyInt(0)),
                          Get(request, "process", PyStr("unknown")),
                          AsTarget(Get(request, "command", PyStr(""))),
                          Get(request, "args", PyDict),
                          t)
        response == evaluate(pe_policies, action_request)
        logged == log(entries, log_file, AuditEntry(t, action_request, response),
                      writable)
    IN  IF response = TypeError
        THEN [request_counter |-> counter, last_decision |-> last_decision,
              entries |-> entries, log_file |-> log_file, result |-> TypeError]
        ELSE [request_counter |-> counter, last_decision |-> response,
              entries |-> logged.entries, log_file |-> logged.log_file,
              result |-> IF logged.raised = None THEN ExecuteResult(response)
                         ELSE logged.raised]

\* A defect: the first decision is remembered, later ones are not
handle_execute_FirstDecision(request, t, writable) ==
    LET counter == request_counter + 1
        action_request ==
            ActionRequest(RequestId(t, counter), "system_command",
                          Get(request, "pid", PyInt(0)),
                          Get(request, "uid", PyInt(0)),
                          Get(request, "process", PyStr("unknown")),
                          AsTarget(Get(request, "command", PyStr(""))),
                          Get(request, "args", PyDict),
                          t)
        response == evaluate(pe_policies, action_request)
        logged == log(entries, log_file, AuditEntry(t, action_request, response),
                      writable)
    IN  IF response = TypeError
        THEN [request_counter |-> counter, last_decision |-> last_decision,
              entries |-> entries, log_file |-> log_file, result |-> TypeError]
        ELSE [request_counter |-> counter,
              last_decision |-> IF last_decision = None THEN response ELSE last_decision,
              entries |-> logged.entries, log_file |-> logged.log_file,
              result |-> IF logged.raised = None THEN ExecuteResult(response)
                         ELSE logged.raised]

\* KalpanaCore.handle_execute on the JSON object `request`, at clock reading t,
\* with the audit file writable or not: the new state of the core and the dict
\* returned, or the exception raised. The counter is incremented first; evaluate
\* may raise TypeError before anything else changes; log appends the entry and
\* may then raise OSError.
handle_execute(request, t, writable) ==
    LET counter == request_counter + 1
        action_request ==
            ActionRequest(RequestId(t, counter), "system_command",
                          Get(request, "pid", PyInt(0)),
                          Get(request, "uid", PyInt(0)),
                          Get(request, "process", PyStr("unknown")),
                          AsTarget(Get(request, "command", PyStr(""))),
                          Get(request, "args", PyDict),
                          t)
        response == evaluate(pe_policies, action_request)
        logged == log(entries, log_file, AuditEntry(t, action_request, response),
                      writable)
    IN  IF response = TypeError
        THEN [request_counter |-> counter, last_decision |-> last_decision,
              entries |-> entries, log_file |-> log_file, result |-> TypeError]
        ELSE [request_counter |-> counter, last_decision |-> response,
              entries |-> logged.entries, log_file |-> logged.log_file,
              result |-> IF logged.raised = None THEN ExecuteResult(response)
                         ELSE logged.raised]

\* KalpanaCore.get_status (DEV_MODE is on by default)
get_status ==
    [status |-> "online", uptime |-> "N/A",
     requests_processed |-> request_counter,
     mode |-> "development",
     policies_loaded |-> Len(pe_policies),
     audit_entries |-> Len(entries)]

\* KalpanaCore.explain_last_decision
explain_last_decision ==
    IF last_decision = None
    THEN [explanation |-> <<"No decisions made yet.">>]
    ELSE [request_id |-> last_decision.request_id,
          decision |-> last_decision.decision,
          reason |-> last_decision.reason,
          explanation |-> <<"The action was ", last_decision.decision,
                            " because: ">> \o last_decision.reason]


\* json.dumps of a response raises TypeError when it holds an AuditEntry's
\* __dict__ (a datetime and dataclass instances); every other response is
\* built from strings, numbers and booleans.
JsonSerializable(response) ==
    ~("entries" \in DOMAIN response /\ response.entries # <<>>)

----------------------------------------------------------------------------
(* IPC server: one handle_client task per connection *)

Conns == {"shell", "ui"}

\* What the bytes of a frame decode to: a JSON object, a JSON array, or nothing
\* (json.loads raises); "eof" is the end of the stream.
Object(obj) == [kind |-> "object", obj |-> obj]

ExecuteFrames ==
    {Object([command |-> PyStr("execute"), cmd |-> PyStr("ls -la"), args |-> PyDict,
             pid |-> PyInt(4242), uid |-> PyInt(1000),
             process |-> PyStr("kalpana-shell")]),
     Object([command |-> PyStr("execute")]),
     Object([command |-> PyStr("execute"), process |-> PyList])}

OtherFrames ==
    {Object([command |-> PyStr("status")]),
     Object([command |-> PyStr("audit"), limit |-> PyInt(50)]),
     Object([command |-> PyStr("explain")]),
     Object([command |-> PyStr("reboot")]),
     Object([pid |-> PyInt(4242)]),
     [kind |-> "array"],
     [kind |-> "invalid"]}

ClientFrames == ExecuteFrames \cup OtherFrames

EndOfStream == [kind |-> "eof"]

\* request.get("command") of a frame that decoded to a JSON object
Command(frame) == Get(frame.obj, "command", None)

IpcInit ==
    /\ PolicyIdle /\ CoreIdle /\ AuditIdle
    /\ conn = [c \in Conns |-> [state |-> "idle", inbox |-> <<>>, outbox |-> <<>>]]
    /\ frames_sent = 0
    /\ server = "listening"
    /\ stream = StreamIdle
    /\ shell = ShellIdle
    /\ daemon = DaemonIdle

\* The listening socket can accept a connection of client c
CanAccept(c) == server = "listening" /\ conn[c].state = "idle"

\* start_unix_server accepts the client's connection and starts a
\* handle_client task for it
Accept(c) ==
    /\ CanAccept(c)
    /\ conn' = [conn EXCEPT ![c].state = "open"]
    /\ UNCHANGED <<frames_sent, server, stream, shell, daemon, pe_vars, core_vars, audit_vars>>

\* A client writes one frame to its connection
ClientSend(c) ==
    /\ conn[c].state = "open"
    /\ frames_sent < MaxFrames
    /\ EndOfStream \notin {conn[c].inbox[i] : i \in DOMAIN conn[c].inbox}
    /\ \E f \in ClientFrames :
          conn' = [conn EXCEPT ![c].inbox = Append(@, f)]
    /\ frames_sent' = frames_sent + 1
    /\ UNCHANGED <<server, stream, shell, daemon, pe_vars, core_vars, audit_vars>>

\* A client closes its end of the connection
ClientClose(c) ==
    /\ conn[c].state = "open"
    /\ EndOfStream \notin {conn[c].inbox[i] : i \in DOMAIN conn[c].inbox}
    /\ conn' = [conn EXCEPT ![c].inbox = Append(@, EndOfStream)]
    /\ UNCHANGED <<frames_sent, server, stream, shell, daemon, pe_vars, core_vars, audit_vars>>

\* handle_client has a frame of connection c to read
Reading(c) == conn[c].state = "open" /\ conn[c].inbox # <<>>

\* The response is serialised and written, or json.dumps raises and the
\* handler's except/finally closes the connection
Respond(c, response) ==
    IF JsonSerializable(response)
    THEN conn' = [conn EXCEPT ![c].inbox = Tail(@), ![c].outbox = Append(@, response)]
    ELSE conn' = [conn EXCEPT ![c].state = "closed", ![c].inbox = <<>>]

\* A defect: an exception in one handler ends every connection
Abort_All(c) ==
    conn' = [d \in Conns |-> [conn[d] EXCEPT !.state = "closed", !.inbox = <<>>]]

\* An exception leaves the loop: the connection is closed, nothing is written
Abort(c) == conn' = [conn EXCEPT ![c].state = "closed", ![c].inbox = <<>>]

ServeExecute(c) ==
    /\ Reading(c)
    /\ Head(conn[c].inbox).kind = "object"
    /\ Command(Head(conn[c].inbox)) = PyStr("execute")
    /\ \E writable \in BOOLEAN :
          LET done == handle_execute(Head(conn[c].inbox).obj, now, writable)
          IN  /\ request_counter' = done.request_counter
              /\ last_decision' = done.last_decision
              /\ entries' = done.entries
              /\ log_file' = done.log_file
              /\ IF "exception" \in DOMAIN done.result
                 THEN Abort(c)
                 ELSE Respond(c, done.result)
    /\ UNCHANGED <<now, issued, au_call, au_return, frames_sent, server, stream, shell, daemon, pe_vars>>

ServeStatus(c) ==
    /\ Reading(c)
    /\ Head(conn[c].inbox).kind = "object"
    /\ Command(Head(conn[c].inbox)) = PyStr("status")
    /\ Respond(c, get_status)
    /\ UNCHANGED <<frames_sent, server, stream, shell, daemon, pe_vars, core_vars, audit_vars>>

ServeAudit(c) ==
    /\ Reading(c)
    /\ Head(conn[c].inbox).kind = "object"
    /\ Command(Head(conn[c].inbox)) = PyStr("audit")
    /\ Respond(c, audit_command(Head(conn[c].inbox).obj))
    /\ UNCHANGED <<frames_sent, server, stream, shell, daemon, pe_vars, core_vars, audit_vars>>

ServeExplain(c) ==
    /\ Reading(c)
    /\ Head(conn[c].inbox).kind = "object"
    /\ Command(Head(conn[c].inbox)) = PyStr("explain")
    /\ Respond(c, explain_last_decision)
    /\ UNCHANGED <<frames_sent, server, stream, shell, daemon, pe_vars, core_vars, audit_vars>>

\* A defect: an unrecognised command ends the connection without a response
ServeUnknown_Closes(c) ==
    /\ Reading(c)
    /\ Head(conn[c].inbox).kind = "object"
    /\ Command(Head(conn[c].inbox)) \notin
          {PyStr("execute"), PyStr("status"), PyStr("audit"), PyStr("explain")}
    /\ Abort(c)
    /\ UNCHANGED <<frames_sent, server, stream, shell, daemon, pe_vars, core_vars, audit_vars>>

ServeUnknown(c) ==
    /\ Reading(c)
    /\ Head(conn[c].inbox).kind = "object"
    /\ Command(Head(conn[c].inbox)) \notin
          {PyStr("execute"), PyStr("status"), PyStr("audit"), PyStr("explain")}
    /\ Respond(c, [error |-> [text |-> "Unknown command: ",
                              cmd |-> Command(Head(conn[c].inbox))]])
    /\ UNCHANGED <<frames_sent, server, stream, shell, daemon, pe_vars, core_vars, audit_vars>>

\* A read raises (connection reset), struct.unpack or json.loads raises on
\* what was read (malformed prefix, truncated or undecodable body), or the JSON
\* value is no object and request.get raises AttributeError
ServeUndecodable(c) ==
    /\ Reading(c)
    /\ Head(conn[c].inbox).kind \in {"array", "invalid"}
    /\ Abort(c)
    /\ UNCHANGED <<frames_sent, server, stream, shell, daemon, pe_vars, core_vars, audit_vars>>

\* reader.read(4) returns b"": the loop breaks and the writer is closed
ServeEndOfStream(c) ==
    /\ Reading(c)
    /\ Head(conn[c].inbox).kind = "eof"
    /\ Abort(c)
    /\ UNCHANGED <<frames_sent, server, stream, shell, daemon, pe_vars, core_vars, audit_vars>>

handle_client(c) ==
    \/ ServeExecute(c)
    \/ ServeStatus(c)
    \/ ServeAudit(c)
    \/ ServeExplain(c)
    \/ ServeUnknown(c)
    \/ ServeUndecodable(c)
    \/ ServeEndOfStream(c)

Init == IpcInit

Next ==
    \/ \E c \in Conns : Accept(c)
    \/ \E c \in Conns : ClientSend(c)
    \/ \E c \in Conns : ClientClose(c)
    \/ \E c \in Conns : handle_client(c)
    \/ Tick

Spec == Init /\ [][Next]_vars

----------------------------------------------------------------------------
(* Properties of the served authority *)

\* All responses written so far, on any connection
Responses == UNION {{conn[c].outbox[i] : i \in DOMAIN conn[c].outbox} : c \in Conns}

ExecuteResponses == {r \in Responses : "allowed" \in DOMAIN r}

\* C5: in every execute response, allowed is true iff the decision is ALLOW or
\* AUDIT and false iff it is DENY or SANDBOX; the response built for each of
\* the four decisions obeys the same rule.
C5_AllowedIffAllowOrAudit ==
    /\ \A r \in ExecuteResponses :
          /\ r.allowed <=> r.decision \in {"allow", "audit"}
          /\ ~r.allowed <=> r.decision \in {"deny", "sandbox"}
    /\ \A d \in Decision :
          LET r == ExecuteResult(ActionResponse(RequestId(now, 1), d, <<"reason">>))
          IN  /\ r.allowed <=> d \in {"allow", "audit"}
              /\ ~r.allowed <=> d \in {"deny", "sandbox"}

C5_Witness ==
    /\ \E r \in ExecuteResponses : r.decision = "sandbox" /\ ~r.allowed
    /\ \E r \in ExecuteResponses : r.decision = "allow" /\ r.allowed

IsPrefix(s, t) == Len(s) <= Len(t) /\ SubSeq(t, 1, Len(s)) = s

\* This step reads the frame at the head of connection c's stream
Serves(c) == Reading(c) /\ Len(conn'[c].inbox) < Len(conn[c].inbox)

IsExecuteFrame(frame) ==
    /\ frame.kind = "object"
    /\ "command" \in DOMAIN frame.obj
    /\ frame.obj.command = PyStr("execute")

\* C6: every execute call, whatever its payload and connection, makes the audit
\* sequence exactly one entry longer (N calls: N entries), and query with no
\* filters returns the entries in arrival order.
C6_ExecuteAddsOneEntry ==
    [][\A c \in Conns :
           (Serves(c) /\ IsExecuteFrame(Head(conn[c].inbox)))
               => /\ Len(entries') = Len(entries) + 1
                  /\ IsPrefix(entries, entries')
                  /\ query(entries', <<>>, <<>>, 100) = entries']_vars

\* C10: the audit sequence before a step is a prefix of the sequence after it;
\* it changes only in a step that serves an execute frame, by one entry; a step
\* that serves a status, audit, explain, unrecognised or undecodable frame
\* leaves the sequence, the request counter and the last decision unchanged.
C10_AuditAppendOnly ==
    [][/\ IsPrefix(entries, entries')
       /\ entries' # entries
             => /\ Len(entries') = Len(entries) + 1
                /\ \E c \in Conns : Serves(c) /\ IsExecuteFrame(Head(conn[c].inbox))
       /\ \A c \in Conns :
             (Serves(c) /\ ~IsExecuteFrame(Head(conn[c].inbox)))
                 => UNCHANGED <<entries, request_counter, last_decision>>]_vars

C10_Witness ==
    /\ Len(entries) = 1
    /\ last_decision # None
    /\ \E r \in Responses :
          /\ "audit_entries" \in DOMAIN r
          /\ r.audit_entries = 1
          /\ r.requests_processed = 1

----------------------------------------------------------------------------
(* Failures of the audit log file *)

\* The response recorded in the newest audit entry, or None
Last_response(es) == IF es = <<>> THEN None ELSE es[Len(es)].response

\* This step serves an execute frame of connection c whose audit entry was
\* appended in memory while the write to the log file failed
WriteFailed(c) ==
    /\ Serves(c)
    /\ IsExecuteFrame(Head(conn[c].inbox))
    /\ Len(entries') = Len(entries) + 1
    /\ log_file' = log_file

\* C11: log never raises to its caller: an execute request whose audit write
\* fails is still evaluated and answered with its decision response, and its
\* connection stays open for later frames.
C11_WriteFailureStillAnswered ==
    [][\A c \in Conns :
           WriteFailed(c)
               => /\ last_decision' = Last_response(entries')
                  /\ conn'[c].state = "open"
                  /\ conn'[c].inbox = Tail(conn[c].inbox)
                  /\ conn'[c].outbox = Append(conn[c].outbox, ExecuteResult(last_decision'))]_vars

\* The records log would have written for the entries es
Lines(es) == [i \in 1..Len(es) |-> log_line(es[i])]

RECURSIVE IsSubsequence(_, _)
IsSubsequence(s, t) ==
    IF s = <<>> THEN TRUE
    ELSE IF t = <<>> THEN FALSE
    ELSE IF Head(s) = Head(t) THEN IsSubsequence(Tail(s), Tail(t))
    ELSE IsSubsequence(s, Tail(t))

\* C12 as stated: in every reachable state the records of the log file
\* correspond one-to-one, in the same order, to the in-memory audit entries.
C12_FileMirrorsEntries == log_file = Lines(entries)

\* C12: a log call that returns appends exactly the record of its entry to the
\* file and leaves every earlier record unchanged; a log call whose write fails
\* raises and leaves the file as it was although its entry is in memory; so the
\* file holds, in order, the records of a subsequence of the in-memory entries,
\* and all of them when it has as many records as there are entries.
C12_FileIsSubsequenceOfEntries ==
    [][/\ IsPrefix(log_file, log_file')
       /\ entries' # entries
             => /\ au_return'.op = "log"
                /\ au_return'.raised = None
                      => log_file' = Append(log_file, log_line(entries'[Len(entries')]))
                /\ au_return'.raised # None => log_file' = log_file
       /\ entries' = entries => log_file' = log_file
       /\ IsSubsequence(log_file', Lines(entries'))
       /\ Len(log_file') = Len(entries') => log_file' = Lines(entries')]_vars

C12_Witness ==
    /\ Len(entries) = 2
    /\ au_return = [op |-> "log", raised |-> None]
    /\ log_file = <<log_line(entries[2])>>

----------------------------------------------------------------------------
(* Commands other than execute *)

KnownCommands == {PyStr("execute"), PyStr("status"), PyStr("audit"), PyStr("explain")}

IsUnknownFrame(frame) == frame.kind = "object" /\ Command(frame) \notin KnownCommands

\* C13: a frame whose JSON object carries a command other than execute, status,
\* audit and explain, or no command field, is answered with an error object
\* naming that command; the connection stays open with its later frames still
\* to be served, and the request counter, the audit sequence and the last
\* decision are unchanged.
C13_UnknownCommandAnswered ==
    [][\A c \in Conns :
           (Serves(c) /\ IsUnknownFrame(Head(conn[c].inbox)))
               => /\ conn'[c].state = "open"
                  /\ conn'[c].inbox = Tail(conn[c].inbox)
                  /\ Len(conn'[c].outbox) = Len(conn[c].outbox) + 1
                  /\ LET r == conn'[c].outbox[Len(conn'[c].outbox)]
                     IN  /\ DOMAIN r = {"error"}
                         /\ r.error.text = "Unknown command: "
                         /\ r.error.cmd = Command(Head(conn[c].inbox))
                  /\ UNCHANGED <<request_counter, entries, log_file, last_decision>>]_vars

C13_Witness ==
    \E c \in Conns :
        /\ conn[c].state = "open"
        /\ Len(conn[c].outbox) = 2
        /\ "error" \in DOMAIN conn[c].outbox[1]
        /\ conn[c].outbox[1].error.cmd = None
        /\ "requests_processed" \in DOMAIN conn[c].outbox[2]

IsCommandFrame(frame, cmd) == frame.kind = "object" /\ Command(frame) = PyStr(cmd)

\* Whether the explain response r reports the outcome recorded in the newest
\* entry of es, or that there is none
ExplainsLastOf(r, es) ==
    IF es = <<>>
    THEN r = [explanation |-> <<"No decisions made yet.">>]
    ELSE /\ r.request_id = es[Len(es)].request.id
         /\ r.request_id = es[Len(es)].response.request_id
         /\ r.decision = es[Len(es)].response.decision
         /\ r.reason = es[Len(es)].response.reason

\* C14: after any commands on any connections, what explain returns is the
\* request id, decision and reason of the response in the last audit entry, the
\* most recently evaluated execute of whichever connection; with no execute
\* evaluated yet it is the 'No decisions made yet' message without a decision.
\* Every served explain frame is answered with exactly that, on its connection.
C14_ExplainReportsLastDecision ==
    [][/\ ExplainsLastOf(explain_last_decision', entries')
       /\ \A c \in Conns :
             (Serves(c) /\ IsCommandFrame(Head(conn[c].inbox), "explain"))
                 => /\ conn'[c].state = "open"
                    /\ conn'[c].inbox = Tail(conn[c].inbox)
                    /\ Len(conn'[c].outbox) = Len(conn[c].outbox) + 1
                    /\ ExplainsLastOf(conn'[c].outbox[Len(conn'[c].outbox)], entries)
                    /\ UNCHANGED <<entries, last_decision>>]_vars

C14_Witness ==
    /\ Len(conn["shell"].outbox) = 1
    /\ Len(conn["ui"].outbox) = 1
    /\ Len(entries) = 1
    /\ "allowed" \in DOMAIN conn["shell"].outbox[1]
    /\ "explanation" \in DOMAIN conn["ui"].outbox[1]
    /\ "decision" \in DOMAIN conn["ui"].outbox[1]
    /\ conn["ui"].outbox[1].request_id = conn["shell"].outbox[1].request_id
    /\ conn["ui"].outbox[1].request_id = entries[1].request.id

\* Python's s[-n:] for n > 0: the last min(n, len) elements
LastN(s, n) == IF Len(s) <= n THEN s ELSE SubSeq(s, Len(s) - n + 1, Len(s))

\* C15: in every reachable state, with the audit log empty or not, a served
\* audit frame is answered with one response frame whose entries field holds
\* the min(50, n) most recently logged entries in arrival order, and the
\* connection remains open for further frames.
C15_AuditCommandAnswered ==
    [][\A c \in Conns :
           (Serves(c) /\ IsCommandFrame(Head(conn[c].inbox), "audit"))
               => /\ conn'[c].state = "open"
                  /\ conn'[c].inbox = Tail(conn[c].inbox)
                  /\ conn'[c].outbox =
                        Append(conn[c].outbox,
                               [entries |-> LastN(entries, AuditCommandLimit)])]_vars

\* C16: the audit command honours the limit field of its payload: with
\* limit = k (k >= 1) the response holds at most k entries, the most recent
\* ones, and with no limit field the 50 most recent.
C16_AuditHonoursLimit ==
    au_return.op = "audit"
        => LET k == IF au_call.limit = <<>> THEN AuditCommandLimit ELSE au_call.limit[1]
           IN  k >= 1 => /\ Len(au_return.result) <= k
                         /\ au_return.result = LastN(entries, k)

\* C17: status reports requests_processed and audit_entries with the same
\* value N after N requests: the two counters are equal in every state
\* between requests, in what status would return and in every status response
\* written.
C17_StatusCountersEqual ==
    /\ get_status.requests_processed = get_status.audit_entries
    /\ \A r \in Responses :
          "requests_processed" \in DOMAIN r => r.requests_processed = r.audit_entries

----------------------------------------------------------------------------
(* Order of requests and responses on a connection *)

\* Whether r is the kind of response process_request builds for the frame
IsResponseTo(r, frame) ==
    IF IsCommandFrame(frame, "execute") THEN "allowed" \in DOMAIN r
    ELSE IF IsCommandFrame(frame, "status") THEN "requests_processed" \in DOMAIN r
    ELSE IF IsCommandFrame(frame, "audit") THEN "entries" \in DOMAIN r
    ELSE IF IsCommandFrame(frame, "explain") THEN "explanation" \in DOMAIN r
    ELSE "error" \in DOMAIN r

\* C18: on each connection every request frame read (a frame that decodes to a
\* JSON object) gets exactly one response frame, written before the next frame
\* is read: the step that reads the k-th request appends its response as the
\* k-th response and leaves the later frames to be read, and no other step
\* writes to the connection.
C18_OneResponsePerRequestInOrder ==
    [][\A c \in Conns :
           /\ (Serves(c) /\ Head(conn[c].inbox).kind = "object")
                 => /\ conn'[c].inbox = Tail(conn[c].inbox)
                    /\ Len(conn'[c].outbox) = Len(conn[c].outbox) + 1
                    /\ IsPrefix(conn[c].outbox, conn'[c].outbox)
                    /\ IsResponseTo(conn'[c].outbox[Len(conn'[c].outbox)],
                                    Head(conn[c].inbox))
           /\ ~Serves(c) => conn'[c].outbox = conn[c].outbox]_vars

----------------------------------------------------------------------------
(* Framing on the byte stream: the reads of handle_client and of send_request *)

\* struct.pack(">I", n) and struct.unpack(">I", b)[0]
pack(n) == <<(n \div 16777216) % 256, (n \div 65536) % 256, (n \div 256) % 256, n % 256>>

unpack(b) == b[1] * 16777216 + b[2] * 65536 + b[3] * 256 + b[4]

\* The UTF-8 bytes of the JSON object that is the body of frame i, len bytes
\* long: "{", len - 2 bytes of content, "}"
Body(i, len) == <<123>> \o [j \in 1..(len - 2) |-> 48 + i] \o <<125>>

JSONDecodeError == [exception |-> "JSONDecodeError"]

\* json.loads(data.decode()): the content of the object when data is exactly
\* one JSON object, else JSONDecodeError
json_loads(data) ==
    IF /\ Len(data) >= 2
       /\ data[1] = 123
       /\ data[Len(data)] = 125
       /\ \A j \in 2..(Len(data) - 1) : data[j] \notin {123, 125}
    THEN [obj |-> SubSeq(data, 2, Len(data) - 1)]
    ELSE JSONDecodeError

\* What a sender writes for a body: writer.write(struct.pack(">I", len(data)))
\* and writer.write(data)
Frame(body) == pack(Len(body)) \o body

\* StreamReader.read(n) on a non-empty buffer: up to n bytes, those available
read(buffer, n) == SubSeq(buffer, 1, IF Len(buffer) < n THEN Len(buffer) ELSE n)

Drop(buffer, n) == SubSeq(buffer, n + 1, Len(buffer))

FrameInit ==
    /\ PolicyIdle /\ CoreIdle /\ AuditIdle
    /\ conn = <<>>
    /\ frames_sent = 0
    /\ server = "stopped"
    /\ shell = ShellIdle
    /\ daemon = DaemonIdle
    /\ stream = [StreamIdle EXCEPT !.pc = "header"]

\* The sender writes one well-formed frame
SendFrame ==
    /\ ~stream.eof
    /\ Len(stream.sent) < MaxStreamFrames
    /\ \E len \in 2..MaxBodyLen :
          LET body == Body(Len(stream.sent) + 1, len)
          IN  stream' = [stream EXCEPT !.sent = Append(@, body),
                                       !.wire = @ \o Frame(body)]
    /\ UNCHANGED <<conn, frames_sent, server, shell, daemon, pe_vars, core_vars, audit_vars>>

\* The sender closes its end
SendEof ==
    /\ ~stream.eof
    /\ stream' = [stream EXCEPT !.eof = TRUE]
    /\ UNCHANGED <<conn, frames_sent, server, shell, daemon, pe_vars, core_vars, audit_vars>>

\* The transport delivers the next chunk, of any size, to the reader's buffer
Deliver ==
    /\ stream.wire # <<>>
    /\ \E n \in 1..Len(stream.wire) :
          stream' = [stream EXCEPT !.buffer = @ \o SubSeq(stream.wire, 1, n),
                                   !.wire = Drop(@, n)]
    /\ UNCHANGED <<conn, frames_sent, server, shell, daemon, pe_vars, core_vars, audit_vars>>

\* The reader is at the end of the stream: read returns b""
AtEof == stream.eof /\ stream.wire = <<>> /\ stream.buffer = <<>>

\* length_data = await reader.read(4); b"" ends the loop; struct.unpack raises
\* struct.error on fewer than 4 bytes
ReadHeader ==
    /\ stream.pc = "header"
    /\ stream.buffer # <<>> \/ AtEof
    /\ LET length_data == read(stream.buffer, HeaderLen)
       IN  stream' =
              IF length_data = <<>> THEN [stream EXCEPT !.pc = "closed"]
              ELSE IF Len(length_data) # HeaderLen
              THEN [stream EXCEPT !.pc = "error", !.buffer = Drop(@, Len(length_data))]
              ELSE [stream EXCEPT !.pc = "body", !.msg_length = unpack(length_data),
                                  !.buffer = Drop(@, HeaderLen)]
    /\ UNCHANGED <<conn, frames_sent, server, shell, daemon, pe_vars, core_vars, audit_vars>>

\* msg_data = await reader.read(msg_length); json.loads(msg_data.decode())
ReadBody ==
    /\ stream.pc = "body"
    /\ stream.buffer # <<>> \/ AtEof \/ stream.msg_length = 0
    /\ LET msg_data == read(stream.buffer, stream.msg_length)
           message == json_loads(msg_data)
       IN  stream' =
              IF message = JSONDecodeError
              THEN [stream EXCEPT !.pc = "error", !.buffer = Drop(@, Len(msg_data))]
              ELSE [stream EXCEPT !.pc = "header", !.buffer = Drop(@, Len(msg_data)),
                                  !.messages = Append(@, message)]
    /\ UNCHANGED <<conn, frames_sent, server, shell, daemon, pe_vars, core_vars, audit_vars>>

FrameNext == SendFrame \/ SendEof \/ Deliver \/ ReadHeader \/ ReadBody

SpecFrame == FrameInit /\ [][FrameNext]_vars

RECURSIVE Frames(_)
Frames(bodies) == IF bodies = <<>> THEN <<>> ELSE Frame(Head(bodies)) \o Frames(Tail(bodies))

\* C19: for frames sent as a 4-byte big-endian length L and L bytes of JSON,
\* however the stream is split into delivery chunks, the receiver rejects no
\* frame, takes exactly the L bytes of each frame as one message, in order,
\* and between frames has consumed exactly the 4 + L bytes of each frame read.
C19_FramesSurviveChunking ==
    /\ stream.pc # "error"
    /\ Len(stream.messages) <= Len(stream.sent)
    /\ \A i \in DOMAIN stream.messages : stream.messages[i] = json_loads(stream.sent[i])
    /\ stream.pc = "header"
          => stream.buffer \o stream.wire =
                Frames(SubSeq(stream.sent, Len(stream.messages) + 1, Len(stream.sent)))

----------------------------------------------------------------------------
(* Isolation of connections *)

\* A frame whose reading or decoding raises in handle_client
IsTransportError(frame) == frame.kind \in {"invalid", "array"}

\* C20: a transport error on one connection ends that connection's serving
\* loop and nothing else: the core's state is unchanged, the server is still
\* listening and accepts whoever it could accept before, and every other
\* connection is as it was, with its frames still to be served. The same
\* isolation holds whenever a step closes a connection.
C20_TransportErrorIsLocal ==
    [][\A c \in Conns :
           /\ (Serves(c) /\ IsTransportError(Head(conn[c].inbox)))
                 => /\ conn'[c].state = "closed"
                    /\ conn'[c].outbox = conn[c].outbox
                    /\ UNCHANGED <<request_counter, entries, log_file, last_decision>>
           /\ (Serves(c) /\ conn'[c].state = "closed")
                 => /\ server' = "listening"
                    /\ \A d \in Conns \ {c} :
                          /\ conn'[d] = conn[d]
                          /\ CanAccept(d) => CanAccept(d)'
                          /\ Reading(d) => Reading(d)']_vars

C20_Witness ==
    /\ server = "listening"
    /\ conn["shell"].state = "closed"
    /\ conn["shell"].outbox = <<>>
    /\ frames_sent = 2
    /\ conn["ui"].state = "open"
    /\ Len(conn["ui"].outbox) = 1
    /\ conn["ui"].inbox = <<>>
    /\ "requests_processed" \in DOMAIN conn["ui"].outbox[1]
    /\ request_counter = 0

----------------------------------------------------------------------------
(* Malformed execute payloads *)

ExecuteFields == {"pid", "uid", "process", "cmd", "args"}

\* An execute payload with a field missing or of the wrong JSON type
IsMalformedExecute(frame) ==
    /\ IsExecuteFrame(frame)
    /\ \/ ~(ExecuteFields \subseteq DOMAIN frame.obj)
       \/ "process" \in DOMAIN frame.obj /\ frame.obj.process.py # "str"
       \/ "pid" \in DOMAIN frame.obj /\ frame.obj.pid.py # "int"
       \/ "uid" \in DOMAIN frame.obj /\ frame.obj.uid.py # "int"

\* C21: an execute payload with missing or ill-typed fields never silently
\* succeeds and never aborts without a response: while the audit file is
\* writable, the step that serves it writes a response that is a SANDBOX or
\* DENY decision or an explicit error object, never ALLOW, and keeps the
\* connection open.
C21_MalformedExecuteAnswered ==
    [][\A c \in Conns :
           (Serves(c) /\ IsMalformedExecute(Head(conn[c].inbox)) /\ ~WriteFailed(c))
               => /\ conn'[c].state = "open"
                  /\ Len(conn'[c].outbox) = Len(conn[c].outbox) + 1
                  /\ LET r == conn'[c].outbox[Len(conn'[c].outbox)]
                     IN  \/ "error" \in DOMAIN r
                         \/ /\ "decision" \in DOMAIN r
                            /\ r.decision \in {"sandbox", "deny"}
                            /\ ~r.allowed]_vars

----------------------------------------------------------------------------
(* The path of one execute request *)

\* The positions <<c, i>> of the execute responses written so far
ExecuteResponseAt ==
    {p \in Conns \X (1..MaxFrames) :
        /\ p[2] \in DOMAIN conn[p[1]].outbox
        /\ "allowed" \in DOMAIN conn[p[1]].outbox[p[2]]}

\* Every entry's response carries the id of the entry's own request, no two
\* entries and no two responses belong to the same request, and every response
\* written has its audit entry, with the same decision
OneEntryOneResponse ==
    /\ \A i \in DOMAIN entries : entries[i].response.request_id = entries[i].request.id
    /\ \A i, j \in DOMAIN entries :
          entries[i].request.id = entries[j].request.id => i = j
    /\ \A p, q \in ExecuteResponseAt :
          conn[p[1]].outbox[p[2]].request_id = conn[q[1]].outbox[q[2]].request_id => p = q
    /\ \A p \in ExecuteResponseAt :
          \E i \in DOMAIN entries :
              /\ entries[i].request.id = conn[p[1]].outbox[p[2]].request_id
              /\ entries[i].response.decision = conn[p[1]].outbox[p[2]].decision
              /\ entries[i].response.reason = conn[p[1]].outbox[p[2]].reason

\* C22: an execute request is evaluated, logged and answered once, in that
\* order: the step serving it appends at most one audit entry and writes at
\* most one response, a response only together with the entry of the same
\* request; in every state each entry's response carries the id of its own
\* request, and no request has two entries or two responses, also when a
\* failure interrupted processing.
C22_EvaluatedLoggedRespondedOnce ==
    [][/\ OneEntryOneResponse'
       /\ \A c \in Conns :
             (Serves(c) /\ IsExecuteFrame(Head(conn[c].inbox)))
                 => /\ Len(entries') - Len(entries) \in {0, 1}
                    /\ Len(conn'[c].outbox) - Len(conn[c].outbox) \in {0, 1}
                    /\ request_counter' = request_counter + 1
                    /\ Len(conn'[c].outbox) > Len(conn[c].outbox)
                          => /\ Len(entries') = Len(entries) + 1
                             /\ entries'[Len(entries')].request.id =
                                   conn'[c].outbox[Len(conn'[c].outbox)].request_id]_vars

C22_Witness ==
    /\ Len(entries) = 2
    /\ Cardinality(ExecuteResponseAt) = 1
    /\ Len(log_file) = 1
    /\ OneEntryOneResponse

----------------------------------------------------------------------------
(* One order of requests across connections *)

RECURSIVE ParseDecimal(_)
ParseDecimal(digits) ==
    IF digits = <<>> THEN 0
    ELSE 10 * ParseDecimal(SubSeq(digits, 1, Len(digits) - 1)) + (digits[Len(digits)] - 48)

\* The counter value in a request id: the digits after "REQ-", the 14 digits
\* of the timestamp and "-"
CounterOf(id) ==
    ParseDecimal(SubSeq(id, Len(ReqPrefix) + Len(strftime(datetime(0))) + Len(Dash) + 1,
                        Len(id)))

\* C23: under any interleaving of the connections' handlers, every served
\* execute request advances the request counter by one and no other step
\* changes it, so no two execute requests obtain the same value; the entry an
\* execute logs carries the value it obtained, and the counter values in the
\* request ids of the audit entries strictly increase along the sequence.
C23_CounterAndAuditTotalOrder ==
    [][/\ \A i, j \in DOMAIN entries' :
             i < j => CounterOf(entries'[i].request.id) < CounterOf(entries'[j].request.id)
       /\ \A i \in DOMAIN entries' : CounterOf(entries'[i].request.id) \in 1..request_counter'
       /\ \A c \in Conns :
             (Serves(c) /\ IsExecuteFrame(Head(conn[c].inbox)))
                 => /\ request_counter' = request_counter + 1
                    /\ entries' # entries
                          => CounterOf(entries'[Len(entries')].request.id) = request_counter'
       /\ request_counter' # request_counter
             => \E c \in Conns : Serves(c) /\ IsExecuteFrame(Head(conn[c].inbox))]_vars

C23_Witness ==
    /\ Len(entries) = 2
    /\ Len(conn["ui"].outbox) = 1
    /\ Len(conn["shell"].outbox) = 1
    /\ "allowed" \in DOMAIN conn["ui"].outbox[1]
    /\ "allowed" \in DOMAIN conn["shell"].outbox[1]
    /\ CounterOf(conn["ui"].outbox[1].request_id) = 1
    /\ CounterOf(conn["shell"].outbox[1].request_id) = 2
    /\ entries[2].request.id = conn["shell"].outbox[1].request_id

----------------------------------------------------------------------------
(* Kalpana Shell (src/kalpana-shell/src/shell.py) *)

\* Command lines a user enters: an internal dot-command, cd, external commands
ShellCommands == {".status", "cd /tmp", "ls -la", "rm -rf /boot/grub"}

IsInternal(command) == command \in {".status"}

IsCd(command) == command \in {"cd /tmp"}

\* What KalpanaIPCClient.execute can return to the shell over a live
\* connection: the Authority's dict for one of the four decisions, or the
\* error dict of send_request
AuthorityAnswers ==
    {ExecuteResult(ActionResponse(RequestId(0, 1), d, <<"reason">>)) : d \in Decision}
        \cup {[error |-> "Not connected"]}

\* response.get("allowed", False)
Allowed(response) == "allowed" \in DOMAIN response /\ response.allowed

ShellInit ==
    /\ PolicyIdle /\ CoreIdle /\ AuditIdle
    /\ conn = <<>>
    /\ frames_sent = 0
    /\ server = "stopped"
    /\ stream = StreamIdle
    /\ daemon = DaemonIdle
    /\ shell = [phase |-> "start", connected |-> FALSE, link |-> "none",
                history |-> <<>>, asked |-> <<>>, ran |-> <<>>]

\* connect_to_core: self.connected = await self.client.connect(), False when
\* the Core's socket cannot be opened or the fallback client is in use
connect_to_core ==
    /\ shell.phase = "start"
    /\ \E reachable \in BOOLEAN :
          shell' = [shell EXCEPT !.phase = "prompt",
                                 !.connected = reachable,
                                 !.link = IF reachable THEN "up" ELSE "none"]
    /\ UNCHANGED <<conn, frames_sent, server, stream, daemon, pe_vars, core_vars, audit_vars>>

\* The Core goes away after the shell has connected; self.connected stays set
ConnectionLost ==
    /\ shell.phase = "prompt"
    /\ shell.link = "up"
    /\ shell' = [shell EXCEPT !.link = "lost"]
    /\ UNCHANGED <<conn, frames_sent, server, stream, daemon, pe_vars, core_vars, audit_vars>>

\* One round of the main loop: the command is added to the history and
\* execute_command decides whether subprocess.run is reached
execute_command(command) ==
    /\ shell.phase = "prompt"
    /\ Len(shell.history) < MaxShellCommands
    /\ \E response \in IF shell.link = "up" THEN AuthorityAnswers
                       ELSE {[error |-> "Not connected"]} :
          LET asks == ~IsInternal(command) /\ ~IsCd(command) /\ shell.connected
              runs == /\ ~IsInternal(command)
                      /\ ~IsCd(command)
                      /\ shell.connected => Allowed(response)
          IN  shell' = [shell EXCEPT
                  !.history = Append(@, command),
                  !.asked = IF asks THEN Append(@, [command |-> command,
                                                     response |-> response])
                            ELSE @,
                  !.ran = IF runs THEN Append(@, command) ELSE @]
    /\ UNCHANGED <<conn, frames_sent, server, stream, daemon, pe_vars, core_vars, audit_vars>>

ShellNext ==
    \/ connect_to_core
    \/ ConnectionLost
    \/ \E command \in ShellCommands : execute_command(command)

SpecShell == ShellInit /\ [][ShellNext]_vars

\* C24: in every shell state, every command the shell has run via subprocess
\* was first submitted to the Authority and got a response with allowed = true.
C24_RunOnlyAfterAllowed ==
    shell.phase = "prompt"
        => \A i \in DOMAIN shell.ran :
               \E k \in DOMAIN shell.asked :
                   /\ shell.asked[k].command = shell.ran[i]
                   /\ Allowed(shell.asked[k].response)

----------------------------------------------------------------------------
(* Stalled connections under a fair event loop *)

\* A peer announces a length and never sends the body: the handler of c stays
\* suspended in reader.read(msg_length)
SendPartial(c) ==
    /\ conn[c].state = "open"
    /\ frames_sent < MaxFrames
    /\ EndOfStream \notin {conn[c].inbox[i] : i \in DOMAIN conn[c].inbox}
    /\ [kind |-> "partial"] \notin {conn[c].inbox[i] : i \in DOMAIN conn[c].inbox}
    /\ conn' = [conn EXCEPT ![c].inbox = Append(@, [kind |-> "partial"])]
    /\ frames_sent' = frames_sent + 1
    /\ UNCHANGED <<server, stream, shell, daemon, pe_vars, core_vars, audit_vars>>

\* A client stops reading its responses: the handler of c stays suspended in
\* writer.drain()
StopReading(c) ==
    /\ conn[c].state = "open"
    /\ conn[c].outbox # <<>>
    /\ conn' = [conn EXCEPT ![c].state = "blocked"]
    /\ UNCHANGED <<frames_sent, server, stream, shell, daemon, pe_vars, core_vars, audit_vars>>

\* The handler of c can never run again
Stalled(c) ==
    \/ conn[c].state = "blocked"
    \/ conn[c].state = "open" /\ conn[c].inbox # <<>> /\ Head(conn[c].inbox).kind = "partial"

StallNext ==
    \/ \E c \in Conns : Accept(c)
    \/ \E c \in Conns : ClientSend(c)
    \/ \E c \in Conns : ClientClose(c)
    \/ \E c \in Conns : SendPartial(c)
    \/ \E c \in Conns : StopReading(c)
    \/ \E c \in Conns : handle_client(c)

\* The event loop runs every handler task that is ready to run
SpecStall ==
    IpcInit /\ [][StallNext]_vars /\ \A c \in Conns : WF_vars(handle_client(c))

\* C25: while one connection (here the shell's) is stalled for ever, every
\* complete request frame (a frame that decodes to a JSON object) waiting on
\* another connection (here the ui's) is eventually answered: a response frame
\* is added to that connection's responses.
C25_OthersEventuallyAnswered ==
    \A k \in 0..(MaxFrames - 1) :
        (/\ Stalled("shell")
         /\ Reading("ui")
         /\ Head(conn["ui"].inbox).kind = "object"
         /\ Len(conn["ui"].outbox) = k)
            ~> (Len(conn["ui"].outbox) > k)

----------------------------------------------------------------------------
(* The daemon's life: construction, start, signal, shutdown *)

\* The policy directories main() can find at startup
StartupDisks == PolicyDisks \cup {UncreatableDisk}

\* The asyncio of the interpreter running the daemon: up to 3.11
\* Server.wait_closed returns at once, from 3.12 it waits until every accepted
\* connection has finished, from 3.13 Server.close also removes the socket path
Interpreters == {"3.11", "3.12", "3.13"}

DaemonInit ==
    /\ CoreIdle /\ AuditIdle
    /\ pe_policies = <<>>
    /\ pe_request = None
    /\ pe_response = None
    /\ pe_prev = None
    /\ pe_calls = 0
    /\ conn = <<>>
    /\ frames_sent = 0
    /\ server = "stopped"
    /\ stream = StreamIdle
    /\ shell = ShellIdle
    /\ daemon \in [phase : {"boot"}, disk : StartupDisks, interpreter : Interpreters,
                   socket_path : {"absent", "stale"}, running : {FALSE},
                   clients : {{}}]

\* main(): core = KalpanaCore(); PolicyEngine() loads the policies, outside
\* any try block
Construct ==
    /\ daemon.phase = "boot"
    /\ IF mkdir_raises(daemon.disk)
       THEN /\ daemon' = [daemon EXCEPT !.phase = "crashed"]
            /\ UNCHANGED pe_policies
       ELSE /\ daemon' = [daemon EXCEPT !.phase = "constructed"]
            /\ pe_policies' = load_policies(daemon.disk)
    /\ UNCHANGED <<pe_request, pe_response, pe_prev, pe_calls>>
    /\ UNCHANGED <<conn, frames_sent, server, stream, shell, core_vars, audit_vars>>

\* KalpanaCore.start up to the main loop: IPCServer.start removes an old
\* socket path, binds and listens; a failed bind leaves start through main()'s
\* finally block
Start ==
    /\ daemon.phase = "constructed"
    /\ \E bound \in BOOLEAN :
          IF bound
          THEN /\ daemon' = [daemon EXCEPT !.phase = "online", !.running = TRUE,
                                           !.socket_path = "bound"]
               /\ server' = "listening"
          ELSE /\ daemon' = [daemon EXCEPT !.phase = "stopping", !.running = TRUE,
                                           !.socket_path = "absent"]
               /\ UNCHANGED server
    /\ UNCHANGED <<conn, frames_sent, stream, shell, pe_vars, core_vars, audit_vars>>

\* A client connects and its handler task waits for frames
ClientConnects(c) ==
    /\ server = "listening"
    /\ c \notin daemon.clients
    /\ daemon' = [daemon EXCEPT !.clients = @ \cup {c}]
    /\ UNCHANGED <<conn, frames_sent, server, stream, shell, pe_vars, core_vars, audit_vars>>

\* A client closes its connection and its handler task ends
ClientDisconnects(c) ==
    /\ c \in daemon.clients
    /\ daemon' = [daemon EXCEPT !.clients = @ \ {c}]
    /\ UNCHANGED <<conn, frames_sent, server, stream, shell, pe_vars, core_vars, audit_vars>>

\* SIGTERM or SIGINT: _handle_shutdown clears the running flag
_handle_shutdown ==
    /\ daemon.phase = "online"
    /\ daemon.running
    /\ daemon' = [daemon EXCEPT !.running = FALSE]
    /\ UNCHANGED <<conn, frames_sent, server, stream, shell, pe_vars, core_vars, audit_vars>>

\* _main_loop wakes from its sleep, finds running cleared and returns; main()
\* enters shutdown
_main_loop ==
    /\ daemon.phase = "online"
    /\ ~daemon.running
    /\ daemon' = [daemon EXCEPT !.phase = "stopping"]
    /\ UNCHANGED <<conn, frames_sent, server, stream, shell, pe_vars, core_vars, audit_vars>>

\* shutdown and the first half of IPCServer.stop: server.close()
shutdown ==
    /\ daemon.phase = "stopping"
    /\ IF server = "listening"
       THEN /\ server' = "closed"
            /\ daemon' = [daemon EXCEPT
                  !.phase = "wait_closed", !.running = FALSE,
                  !.socket_path = IF daemon.interpreter = "3.13" THEN "absent" ELSE @]
       ELSE /\ UNCHANGED server
            /\ daemon' = [daemon EXCEPT !.phase = "offline", !.running = FALSE,
                                        !.socket_path = "absent"]
    /\ UNCHANGED <<conn, frames_sent, stream, shell, pe_vars, core_vars, audit_vars>>

\* The second half of IPCServer.stop: await server.wait_closed() returns, then
\* the socket path is removed if it exists
stop ==
    /\ daemon.phase = "wait_closed"
    /\ daemon.interpreter = "3.11" \/ daemon.clients = {}
    /\ daemon' = [daemon EXCEPT !.phase = "offline", !.socket_path = "absent"]
    /\ UNCHANGED <<conn, frames_sent, server, stream, shell, pe_vars, core_vars, audit_vars>>

\* The steps the daemon takes by itself
DaemonStep == Construct \/ Start \/ _main_loop \/ shutdown \/ stop

DaemonNext ==
    \/ DaemonStep
    \/ _handle_shutdown
    \/ \E c \in Conns : ClientConnects(c)
    \/ \E c \in Conns : ClientDisconnects(c)

\* The interpreter keeps running the daemon's ready coroutines
SpecDaemon == DaemonInit /\ [][DaemonNext]_vars /\ WF_vars(DaemonStep)

\* The number of well-formed documents the daemon's policy directory offers
WellFormedDocuments(disk) ==
    IF disk.exists THEN Cardinality({i \in DOMAIN disk.files : disk.files[i].ok}) ELSE 1

\* C26: policy-loading failures are not fatal: whether the policy directory
\* cannot be created or a policy file is malformed, the daemon is constructed,
\* policies_loaded counts only the well-formed documents, and evaluate applies
\* the protected-path and trusted-process rules.
C26_PolicyFailuresNonFatal ==
    /\ daemon.phase # "crashed"
    /\ daemon.phase # "boot"
          => /\ get_status.policies_loaded = WellFormedDocuments(daemon.disk)
             /\ evaluate(pe_policies,
                         ActionRequest(RequestId(0, 1), "file_write", PyInt(0), PyInt(0),
                                       PyStr("kalpana-shell"), <<"/boot">>, PyDict, 0)
                        ).decision = "deny"
             /\ evaluate(pe_policies,
                         ActionRequest(RequestId(0, 1), "file_write", PyInt(0), PyInt(0),
                                       PyStr("kalpana-shell"), <<"/tmp">>, PyDict, 0)
                        ).decision = "allow"

\* C27: the socket's life: once the daemon is online the path is the socket it
\* bound, a stale path having been removed; and after SIGTERM or SIGINT has
\* cleared the running flag, the daemon eventually has left its main loop,
\* closed the listening server and removed the path, whatever client
\* connections are open.
C27_SignalLeadsToSocketRemoved ==
    /\ [](daemon.phase = "online" => daemon.socket_path = "bound" /\ server = "listening")
    /\ (daemon.phase = "online" /\ ~daemon.running)
          ~> (daemon.phase = "offline" /\ server = "closed" /\ daemon.socket_path = "absent")

----------------------------------------------------------------------------
(* What the execute path evaluates *)

\* The payload KalpanaIPCClient.execute(command) sends carries the command
\* line in its "cmd" field
IsClientExecute(frame) == IsExecuteFrame(frame) /\ "cmd" \in DOMAIN frame.obj

\* C28: for a command string submitted through KalpanaIPCClient.execute, the
\* ActionRequest that is evaluated and recorded in the audit log has that
\* string as its target.
C28_AuditTargetIsCommand ==
    [][\A c \in Conns :
           (Serves(c) /\ IsClientExecute(Head(conn[c].inbox)) /\ entries' # entries)
               => entries'[Len(entries')].request.target =
                     AsTarget(Head(conn[c].inbox).obj.cmd)]_vars

\* The payload names a trusted process
NamesTrusted(frame) == Get(frame.obj, "process", PyStr("unknown")) \in trusted_processes

\* C29: every execute request served, whatever its payload, is decided, and
\* its decision is ALLOW when the payload's process is in the trusted set and
\* SANDBOX otherwise, never DENY or AUDIT; a response written for it has
\* allowed = true exactly when the process is trusted.
C29_AllowIffTrustedElseSandbox ==
    [][\A c \in Conns :
           (Serves(c) /\ IsExecuteFrame(Head(conn[c].inbox)))
               => /\ last_decision' # None
                  /\ CounterOf(last_decision'.request_id) = request_counter'
                  /\ last_decision'.decision =
                        IF NamesTrusted(Head(conn[c].inbox)) THEN "allow" ELSE "sandbox"
                  /\ Len(conn'[c].outbox) > Len(conn[c].outbox)
                        => (conn'[c].outbox[Len(conn'[c].outbox)].allowed
                               <=> NamesTrusted(Head(conn[c].inbox)))]_vars

\* C30: a FILE_WRITE or FILE_DELETE is denied as a protected path only when its
\* target is a protected directory or lies beneath one: for every target outside
\* those directories a trusted process is answered ALLOW and the response does
\* not carry the protected-path reason.
C30_OutsideProtectedTrustedAllowed ==
    (/\ Evaluated
     /\ pe_request.action_type \in {"file_write", "file_delete"}
     /\ pe_request.requestor_name \in trusted_processes
     /\ ~UnderProtected(pe_request.target))
        => /\ pe_response.decision = "allow"
           /\ pe_response.reason # ProtectedReason

====
